---- MODULE Spec2Model ----
(***************************************************************************)
(* target-shopify: the retry wrapper insert_record (two stacked            *)
(* backoff.on_exception decorators, backoff==1.11.1) and the upload        *)
(* pipeline of target_shopify/__init__.py.                                 *)
(***************************************************************************)
EXTENDS Integers, Sequences, FiniteSets, TLC

VARIABLES
    \* ---- upload and the file handlers
    present,    \* the input files that exist in config['input_path']
    stage,      \* which of upload's seven existence checks is next (8: past the last)
    pc,         \* position in upload or in the running handler
    nrec,       \* number of records load_json returned for the running handler
    idx,        \* index of the record the handler's loop is at
    cur,        \* that record
    sub,        \* index in the record's inner loop (line items, variants, fulfillments)
    loc,        \* the handler's local variables
    trace,      \* remote calls and log lines issued for the current record, in order
    banners,    \* upload's own log lines, in order
    \* ---- insert_record: the frame of one call of the retry wrapper
    rpc,        \* "idle" | "call" (about to invoke obj.save) | "returned" | "raised"
    tries,      \* the outer decorator's tries counter
    yielded,    \* values the inner decorator's wait generator has yielded so far
    saveCalls,  \* invocations of obj.save() in this call of insert_record
    sleeps,     \* seconds slept by the inner (Retry-After) layer, in order
    retryLogs,  \* details['tries'] of each retry_handler log line, in order
    seen,       \* classes of the errors obj.save has raised so far
    last,       \* outcome of the latest obj.save() call
    ret,        \* value insert_record returned
    exc         \* exception insert_record propagated

retryVars == <<rpc, tries, yielded, saveCalls, sleeps, retryLogs, seen, last, ret, exc>>

uploadVars == <<present, stage, pc, nrec, idx, cur, sub, loc, trace, banners>>

vars == <<uploadVars, retryVars>>

MAX_RETRIES == 5

(***************************************************************************)
(* Exceptions and save outcomes                                            *)
(***************************************************************************)
NoHeaders == [k \in {} |-> 0]

\* A header value is the number its text denotes, in tenths ("2" is 20, "1.5" is 15).
RetryAfterTexts == {15, 20}

HeaderSets ==
    {NoHeaders}
        \cup {("Retry-After" :> v) : v \in RetryAfterTexts}
        \cup {("retry-after" :> v) : v \in RetryAfterTexts}

ClientError(code, headers) == [cls |-> "ClientError", code |-> code, headers |-> headers]
ServerError == [cls |-> "ServerError", code |-> 500, headers |-> NoHeaders]
JSONDecodeError == [cls |-> "JSONDecodeError", code |-> 0, headers |-> NoHeaders]
TypeError == [cls |-> "TypeError", code |-> 0, headers |-> NoHeaders]

Returns(v) == [kind |-> "return", val |-> v, err |-> ServerError]
Raises(e) == [kind |-> "raise", val |-> FALSE, err |-> e]

\* Every outcome one obj.save() call can have.
SaveOutcomes ==
    {Returns(v) : v \in BOOLEAN}
        \cup {Raises(ClientError(429, h)) : h \in HeaderSets}
        \cup {Raises(ClientError(c, NoHeaders)) : c \in {400, 404}}
        \cup {Raises(ServerError), Raises(JSONDecodeError)}

\* The outcomes used where the wrapper runs inside a file handler.
RemoteOutcomes == {Returns(TRUE), Returns(FALSE), Raises(ServerError)}

\* isinstance(e, c): every class here derives from Exception.
IsInstance(e, c) == c = e.cls \/ c = "Exception"

ErrClass(e) ==
    IF e.cls = "ClientError"
    THEN IF e.code = 429
         THEN IF e.headers = NoHeaders THEN "rate_noheader" ELSE "rate"
         ELSE "client"
    ELSE IF e.cls = "ServerError" THEN "server" ELSE "other"

(***************************************************************************)
(* The retry wrapper                                                       *)
(***************************************************************************)
\* gen_fn of is_not_status_code_fn(status_code): the inner layer's giveup.
is_not_status_code_fn(status_code, e) ==
    IF e.code # 0 /\ e.code \notin status_code THEN TRUE ELSE FALSE

\* dict.get(key, default); a missing value (None) is the empty tuple.
HeadersGet(headers, key, default) ==
    IF key \in DOMAIN headers THEN <<headers[key]>> ELSE default

\* math.floor(float(text))
FloorFloat(tenths) == tenths \div 10

\* Mutant of retry_after_wait_gen: the generator yields a second time.
retry_after_wait_gen_twice(e) ==
    LET sleep_time_str == HeadersGet(e.headers, "Retry-After",
                                     HeadersGet(e.headers, "retry-after", <<>>))
        y == IF sleep_time_str = <<>> THEN [raises |-> TRUE, value |-> 0]
             ELSE [raises |-> FALSE, value |-> FloorFloat(sleep_time_str[1])]
    IN  <<y, y>>

\* The values the generator retry_after_wait_gen yields over its life, for the
\* exception e being handled at its first next(): one value, then it ends.
\* float(None) raises TypeError inside the generator in place of the yield.
retry_after_wait_gen(e) ==
    LET sleep_time_str == HeadersGet(e.headers, "Retry-After",
                                     HeadersGet(e.headers, "retry-after", <<>>))
    IN  IF sleep_time_str = <<>> THEN <<[raises |-> TRUE, value |-> 0]>>
        ELSE <<[raises |-> FALSE, value |-> FloorFloat(sleep_time_str[1])]>>

\* backoff.full_jitter, the default jitter the inner decorator keeps:
\* random.uniform(0, value).
FullJitter(value) == 0..value

\* except-clause of the inner decorator (line 102): isinstance(e, ClientError).
InnerCatches(e) == IsInstance(e, "ClientError")

\* except-clause of the outer decorator (lines 95-98): the tuple ends in
\* Exception, which every error raised here is an instance of.
OuterCatches(e) ==
    \E c \in {"ServerError", "Error", "JSONDecodeError", "Exception"} : IsInstance(e, c)

\* What the inner decorator does with an exception of obj.save:
\* "wait" (sleep, call again) or "raise" (the exception, or a new one, leaves it).
InnerDisposition(e, n) ==
    IF ~InnerCatches(e) THEN [do |-> "raise", err |-> e]
    ELSE IF is_not_status_code_fn({429}, e) THEN [do |-> "raise", err |-> e]
    ELSE IF n >= Len(retry_after_wait_gen(e))
         THEN [do |-> "raise", err |-> e]                   \* StopIteration: raise e
    ELSE IF retry_after_wait_gen(e)[n + 1].raises
         THEN [do |-> "raise", err |-> TypeError]
    ELSE [do |-> "wait", err |-> e]

\* Mutant of max_tries_exceeded: one try too many.
max_tries_exceeded_late(n) == n = MAX_RETRIES + 1

\* The outer decorator gives up when tries == max_tries.
max_tries_exceeded(n) == n = MAX_RETRIES

\* insert_record(obj) is entered: both decorators start with fresh counters.
EnterInsertRecord ==
    /\ rpc' = "call"
    /\ tries' = 1
    /\ yielded' = 0
    /\ saveCalls' = 0
    /\ sleeps' = <<>>
    /\ retryLogs' = <<>>
    /\ seen' = {}
    /\ last' = Returns(FALSE)
    /\ ret' = FALSE
    /\ exc' = [e |-> ServerError, at |-> 0]

RetryIdle ==
    /\ rpc' = "idle"
    /\ tries' = 0
    /\ yielded' = 0
    /\ saveCalls' = 0
    /\ sleeps' = <<>>
    /\ retryLogs' = <<>>
    /\ seen' = {}
    /\ last' = Returns(FALSE)
    /\ ret' = FALSE
    /\ exc' = [e |-> ServerError, at |-> 0]

\* One invocation of obj.save() with outcome o, and everything both decorators
\* do with it before the next invocation (or before insert_record ends).
insert_record_step(o) ==
    /\ rpc = "call"
    /\ saveCalls' = saveCalls + 1
    /\ last' = o
    /\ IF o.kind = "return"
       THEN /\ rpc' = "returned"
            /\ ret' = o.val
            /\ UNCHANGED <<tries, yielded, sleeps, retryLogs, seen, exc>>
       ELSE LET inner == InnerDisposition(o.err, yielded) IN
            /\ seen' = seen \cup {ErrClass(o.err)}
            /\ ret' = ret
            /\ IF inner.do = "wait"
               THEN \* leaky_bucket_handler logs, time.sleep(seconds)
                    /\ \E seconds \in FullJitter(retry_after_wait_gen(o.err)[yielded + 1].value) :
                          sleeps' = Append(sleeps, seconds)
                    /\ yielded' = yielded + 1
                    /\ UNCHANGED <<rpc, tries, retryLogs, exc>>
               ELSE IF ~OuterCatches(inner.err) \/ max_tries_exceeded(tries)
               THEN /\ rpc' = "raised"
                    /\ exc' = [e |-> inner.err, at |-> saveCalls + 1]
                    /\ UNCHANGED <<tries, yielded, sleeps, retryLogs>>
               ELSE \* retry_handler logs; expo sleep; the inner function is
                    \* called again, with a new wait generator
                    /\ retryLogs' = Append(retryLogs, tries)
                    /\ tries' = tries + 1
                    /\ yielded' = 0
                    /\ UNCHANGED <<rpc, sleeps, exc>>


\* insert_record while it runs: obj.save() is invoked once more, with any
\* outcome of the set O.
insert_record(O) ==
    /\ \E o \in O : insert_record_step(o)
    /\ UNCHANGED uploadVars

(***************************************************************************)
(* upload and the file handlers                                            *)
(***************************************************************************)
MaxRecords == 2

\* The handlers in the order upload tries them, and the file each reads.
Handlers ==
    <<"fulfill_order", "update_fulfillments", "upload_products", "upload_orders",
      "update_product", "update_inventory", "upload_refunds">>

FileOf(h) ==
    CASE h = "fulfill_order" -> "fulfill_order.json"
      [] h = "update_fulfillments" -> "update_fulfillments.json"
      [] h = "upload_products" -> "products.json"
      [] h = "upload_orders" -> "orders.json"
      [] h = "update_product" -> "update_product.json"
      [] h = "update_inventory" -> "update_inventory.json"
      [] h = "upload_refunds" -> "refunds.json"

Files == {FileOf(Handlers[i]) : i \in 1..Len(Handlers)}

\* Mutant of Exists: the check succeeds whether or not the file is there.
Exists_always(file) == file \in present \/ file \in Files

\* os.path.exists(f"{config['input_path']}/<file>")
Exists(file) == file \in present

Event(h, op, arg) == [by |-> h, op |-> op, arg |-> arg]

\* dict.get(key): the value in a 1-tuple, or the empty tuple for None.
Get(d, key) == IF key \in DOMAIN d THEN <<d[key]>> ELSE <<>>

\* bool(dict.get(key)) for the text values used here: absent and "" are falsy.
Truthy(d, key) == key \in DOMAIN d /\ d[key] # ""

\* One existence check of upload: the handler starts, or the file is skipped.
UploadCheck ==
    /\ pc = "check"
    /\ stage <= Len(Handlers)
    /\ IF Exists(FileOf(Handlers[stage]))
       THEN /\ pc' = Handlers[stage]
            /\ banners' = Append(banners, <<"Found", FileOf(Handlers[stage])>>)
            /\ stage' = stage
       ELSE /\ pc' = "check"
            /\ banners' = banners
            /\ stage' = stage + 1
    /\ UNCHANGED <<present, nrec, idx, cur, sub, loc, trace>>
    /\ UNCHANGED retryVars

\* A handler returned to upload.
UploadReturn ==
    /\ pc = "return"
    /\ pc' = "check"
    /\ banners' = Append(banners, <<"uploaded", FileOf(Handlers[stage])>>)
    /\ stage' = stage + 1
    /\ UNCHANGED <<present, nrec, idx, cur, sub, loc, trace>>
    /\ UNCHANGED retryVars

UploadDone ==
    /\ pc = "check"
    /\ stage = Len(Handlers) + 1
    /\ pc' = "done"
    /\ banners' = Append(banners, <<"Posting process has completed!", "">>)
    /\ UNCHANGED <<present, stage, nrec, idx, cur, sub, loc, trace>>
    /\ UNCHANGED retryVars

\* No handler, and neither upload nor main, catches what insert_record raises.
SavedLabels ==
    {"fulfill_order.saved", "update_fulfillments.saved", "upload_products.saved",
     "upload_orders.saved", "update_product.variant_saved",
     "update_product.product_saved", "update_inventory.saved", "upload_refunds.saved"}

Propagate ==
    /\ rpc = "raised"
    /\ pc \in SavedLabels
    /\ pc' = "aborted"
    /\ UNCHANGED <<present, stage, nrec, idx, cur, sub, loc, trace, banners>>
    /\ UNCHANGED retryVars

\* The lengths of the list load_json returns.
Counts == 0..MaxRecords

\* load_json(input_path) at the top of handler h: the list has one of the
\* lengths in C; its records are drawn as the loop reaches them.
Load(h, C) ==
    /\ pc = h
    /\ \E len \in C : nrec' = len
    /\ idx' = 1
    /\ sub' = 0
    /\ cur' = <<>>
    /\ trace' = <<>>
    /\ UNCHANGED <<present, stage, banners>>
    /\ UNCHANGED retryVars

(***************************************************************************)
(* fulfill_order                                                           *)
(***************************************************************************)
OrderIds == {1001, 1002}

Fulfillments == {[order_id |-> o] : o \in OrderIds}

fulfill_order_load(C) ==
    /\ Load("fulfill_order", C)
    /\ pc' = "fulfill_order.for"
    /\ loc' = <<>>

fulfill_order_for(Records) ==
    /\ pc = "fulfill_order.for"
    /\ IF idx > nrec
       THEN /\ pc' = "return"
            /\ UNCHANGED <<cur, trace>>
            /\ UNCHANGED retryVars
       ELSE \E fulfillment \in Records :
            /\ cur' = fulfillment
            /\ trace' = <<Event("fulfill_order", "insert_record",
                                [type |-> "Fulfillment", attributes |-> fulfillment])>>
            /\ EnterInsertRecord
            /\ pc' = "fulfill_order.saved"
    /\ UNCHANGED <<present, stage, nrec, idx, sub, loc, banners>>

\* Line 325 reads fulfillment.order_id of a dict: building the warning raises
\* AttributeError, which nothing catches.
fulfill_order_saved ==
    /\ pc = "fulfill_order.saved"
    /\ rpc = "returned"
    /\ IF ~ret
       THEN /\ pc' = "aborted"
            /\ idx' = idx
       ELSE /\ pc' = "fulfill_order.for"
            /\ idx' = idx + 1
    /\ RetryIdle
    /\ UNCHANGED <<present, stage, nrec, cur, sub, loc, trace, banners>>

(***************************************************************************)
(* update_fulfillments                                                     *)
(***************************************************************************)
MaxFulfillments == 2

\* All sequences over S of length at most k.
SeqsUpTo(S, k) == UNION {[1..m -> S] : m \in 0..k}

UpdateFulfillments == {[order_id |-> o, shipment_status |-> "delivered"] : o \in OrderIds}

\* What shopify.Fulfillment.find(order_id=o) can answer: ResourceNotFound, or
\* the fulfillments of the order, each open or cancelled.
FulfillmentFinds(o) ==
    {[found |-> FALSE, items |-> <<>>]}
        \cup {[found |-> TRUE,
               items |-> [i \in 1..Len(st) |-> [id |-> i, order_id |-> o, status |-> st[i]]]] :
              st \in SeqsUpTo({"success", "cancelled"}, MaxFulfillments)}

update_fulfillments_load(C) ==
    /\ Load("update_fulfillments", C)
    /\ pc' = "update_fulfillments.for"
    /\ loc' = <<>>

\* Line 307 is outside any try: a ResourceNotFound ends the run.
update_fulfillments_for(Records) ==
    /\ pc = "update_fulfillments.for"
    /\ IF idx > nrec
       THEN /\ pc' = "return"
            /\ UNCHANGED <<cur, sub, loc, trace>>
       ELSE \E fulfillment \in Records :
            \E ff \in FulfillmentFinds(fulfillment.order_id) :
            /\ cur' = fulfillment
            /\ trace' = <<Event("update_fulfillments", "Fulfillment.find",
                                [order_id |-> Get(fulfillment, "order_id"),
                                 found |-> ff.found])>>
            /\ loc' = [ff |-> ff.items]
            /\ sub' = 1
            /\ pc' = IF ff.found THEN "update_fulfillments.item" ELSE "aborted"
    /\ UNCHANGED <<present, stage, nrec, idx, banners>>
    /\ UNCHANGED retryVars

\* Lines 310-311: the event built for one fulfillment of the order.
FulfillmentEvent(item, fulfillment) ==
    [type |-> "FulfillmentEvent", order_id |-> item.order_id, fulfillment_id |-> item.id,
     status |-> Get(fulfillment, "shipment_status")]

update_fulfillments_item ==
    /\ pc = "update_fulfillments.item"
    /\ IF sub > Len(loc.ff)
       THEN /\ idx' = idx + 1
            /\ pc' = "update_fulfillments.for"
            /\ UNCHANGED <<sub, trace>>
            /\ UNCHANGED retryVars
       ELSE IF loc.ff[sub].status # "cancelled"
       THEN /\ trace' = Append(trace, Event("update_fulfillments", "insert_record",
                                            FulfillmentEvent(loc.ff[sub], cur)))
            /\ EnterInsertRecord
            /\ pc' = "update_fulfillments.saved"
            /\ UNCHANGED <<idx, sub>>
       ELSE /\ sub' = sub + 1
            /\ UNCHANGED <<pc, idx, trace>>
            /\ UNCHANGED retryVars
    /\ UNCHANGED <<present, stage, nrec, cur, loc, banners>>

update_fulfillments_saved ==
    /\ pc = "update_fulfillments.saved"
    /\ rpc = "returned"
    /\ trace' = IF ~ret
                THEN Append(trace, Event("update_fulfillments", "logger.warning",
                                         [fulfillment |-> loc.ff[sub].id]))
                ELSE trace
    /\ sub' = sub + 1
    /\ pc' = "update_fulfillments.item"
    /\ RetryIdle
    /\ UNCHANGED <<present, stage, nrec, idx, cur, loc, banners>>

(***************************************************************************)
(* upload_orders                                                           *)
(***************************************************************************)
MaxLines == 2

\* The remote catalogue: the variant id each SKU belongs to.
CatalogId(sku) == IF sku = "A" THEN "501" ELSE "502"

\* A global id, as its text split at "/": gid://shopify/ProductVariant/501.
VariantGid(sku) == <<"gid:", "", "shopify", "ProductVariant", CatalogId(sku)>>

\* Line items: with a variant id, with a SKU only, with a falsy variant id and
\* a SKU, and with neither.
LineItems ==
    {[variant_id |-> "777", quantity |-> 1],
     [sku |-> "A", quantity |-> 2],
     [variant_id |-> "", sku |-> "B", quantity |-> 3],
     [quantity |-> 4]}

Orders == {[line_items |-> l] : l \in SeqsUpTo(LineItems, MaxLines)}

\* What gql_client.execute can answer for a SKU: an error, no edge, or the
\* edge of the SKU's variant (the query asks for first:1).
SkuResponses(sku) ==
    {[ok |-> FALSE, edges |-> <<>>],
     [ok |-> TRUE, edges |-> <<>>],
     [ok |-> TRUE, edges |-> <<VariantGid(sku)>>]}

\* Mutant of get_variant_by_sku: the id is taken from the wrong end of the gid.
get_variant_by_sku_head(response) ==
    IF ~response.ok THEN [raises |-> TRUE, value |-> ""]
    ELSE IF Len(response.edges) = 0 THEN [raises |-> TRUE, value |-> ""]
    ELSE [raises |-> FALSE, value |-> response.edges[1][1]]

\* get_variant_by_sku, given the answer of the GraphQL call: it raises when
\* the call failed or edges[0] does not exist, else gid.split("/")[-1].
get_variant_by_sku(response) ==
    IF ~response.ok THEN [raises |-> TRUE, value |-> ""]
    ELSE IF Len(response.edges) = 0 THEN [raises |-> TRUE, value |-> ""]
    ELSE [raises |-> FALSE, value |-> response.edges[1][Len(response.edges[1])]]

upload_orders_load(C) ==
    /\ Load("upload_orders", C)
    /\ pc' = "upload_orders.for"
    /\ loc' = <<>>

upload_orders_for(Records) ==
    /\ pc = "upload_orders.for"
    /\ IF idx > nrec
       THEN /\ pc' = "return"
            /\ UNCHANGED <<cur, sub, loc, trace>>
       ELSE \E o \in Records :
            /\ cur' = o
            /\ loc' = [lines |-> <<>>]
            /\ sub' = 1
            /\ trace' = <<>>
            /\ pc' = "upload_orders.line"
    /\ UNCHANGED <<present, stage, nrec, idx, banners>>
    /\ UNCHANGED retryVars

\* Lines 144-150: the line item appended for a resolved variant.
LineItem(variant, li) == [variant_id |-> variant, quantity |-> li.quantity]

\* One pass of the loop over o["line_items"] (lines 130-150), or, past the
\* last line item, lines 153-156.
upload_orders_line ==
    /\ pc = "upload_orders.line"
    /\ IF sub > Len(cur.line_items)
       THEN /\ trace' = Append(trace, Event("upload_orders", "insert_record",
                                            [type |-> "Order", line_items |-> loc.lines]))
            /\ EnterInsertRecord
            /\ pc' = "upload_orders.saved"
            /\ UNCHANGED <<sub, loc>>
       ELSE LET li == cur.line_items[sub] IN
            /\ UNCHANGED retryVars
            /\ IF Truthy(li, "variant_id")
               THEN /\ loc' = [lines |-> Append(loc.lines, LineItem(li.variant_id, li))]
                    /\ sub' = sub + 1
                    /\ UNCHANGED <<pc, trace>>
               ELSE IF "sku" \notin DOMAIN li
               THEN \* li["sku"] raises KeyError outside the try
                    /\ pc' = "aborted"
                    /\ UNCHANGED <<sub, loc, trace>>
               ELSE \E response \in SkuResponses(li.sku) :
                    LET r == get_variant_by_sku(response)
                        q == Event("upload_orders", "GraphQL.execute",
                                   [sku |-> li.sku, response |-> response])
                    IN  /\ sub' = sub + 1
                        /\ pc' = pc
                        /\ IF r.raises
                           THEN /\ trace' = trace \o
                                      <<q, Event("upload_orders", "logger.info", [sku |-> li.sku])>>
                                /\ loc' = loc
                           ELSE /\ trace' = Append(trace, q)
                                /\ loc' = [lines |-> Append(loc.lines, LineItem(r.value, li))]
    /\ UNCHANGED <<present, stage, nrec, idx, cur, banners>>

upload_orders_saved ==
    /\ pc = "upload_orders.saved"
    /\ rpc = "returned"
    /\ trace' = IF ~ret
                THEN Append(trace, Event("upload_orders", "logger.warning", [order |-> idx]))
                ELSE trace
    /\ idx' = idx + 1
    /\ pc' = "upload_orders.for"
    /\ RetryIdle
    /\ UNCHANGED <<present, stage, nrec, cur, sub, loc, banners>>

(***************************************************************************)
(* upload_products                                                         *)
(***************************************************************************)
MaxVariants == 2

LocationIds == {"77", "78"}

\* gid://shopify/Location/77, split at "/".
LocationGid(id) == <<"gid:", "", "shopify", "Location", id>>

\* location.split("gid://shopify/Location/")[1]: the text after the prefix.
LocationIdOf(gid) == gid[Len(gid)]

ProductVariants ==
    {[title |-> "S", inventory_quantity |-> 3],
     [title |-> "M", inventory_quantity |-> 5],
     [title |-> "M", sku |-> "A"]}

Products ==
    LET Base == {[title |-> "Shirt"], [vendor |-> "Acme"],
                 [title |-> "Shirt", vendor |-> ""], [title |-> "Shirt", vendor |-> "Acme"]}
    IN  Base \cup {b @@ [variants |-> vs] :
                   b \in Base, vs \in SeqsUpTo(ProductVariants, MaxVariants)}

\* The optional fields of lines 178-191 that are present and truthy.
OptionalFields(p) ==
    {k \in {"product_type", "body_html", "vendor", "tags", "images"} : Truthy(p, k)}

\* bool(p.get("variants")): an absent or empty list is falsy.
HasVariants(p) == "variants" \in DOMAIN p /\ Len(p.variants) > 0

\* The shopify.Product built by lines 173-208.
ProductOf(p) ==
    LET keys == {"title"} \cup OptionalFields(p)
                    \cup (IF HasVariants(p) THEN {"variants"} ELSE {})
    IN  [k \in keys |-> p[k]]

\* The inventory item the platform creates for the i-th variant of a product.
InventoryItemOf(i) == 9000 + i

\* sp.variants after sp.save(): when the save succeeded the object holds the
\* platform's variants (each with its inventory_item_id); when it returned
\* False it still holds the local ones.
SavedVariants(sp, saved) ==
    IF "variants" \notin DOMAIN sp THEN <<>>
    ELSE IF saved
    THEN [i \in 1..Len(sp.variants) |->
            sp.variants[i] @@ [inventory_item_id |-> InventoryItemOf(i)]]
    ELSE sp.variants

\* next((x for x in sp.variants if x.title == v['title']), None), as the index
\* of x in sp.variants; 0 for None.
MatchVariant(variants, v) ==
    LET hits == {i \in 1..Len(variants) : variants[i].title = v.title}
    IN  IF hits = {} THEN 0 ELSE CHOOSE i \in hits : \A j \in hits : i <= j

upload_products_load(C) ==
    /\ Load("upload_products", C)
    /\ \E id \in LocationIds : loc' = [lid |-> LocationIdOf(LocationGid(id))]
    /\ pc' = "upload_products.for"

upload_products_for(Records) ==
    /\ pc = "upload_products.for"
    /\ IF idx > nrec
       THEN /\ pc' = "return"
            /\ UNCHANGED <<cur, sub, loc, trace>>
            /\ UNCHANGED retryVars
       ELSE \E p \in Records :
            /\ cur' = p
            /\ sub' = 0
            /\ IF "title" \notin DOMAIN p
               THEN \* p["title"] raises KeyError
                    /\ pc' = "aborted"
                    /\ trace' = <<>>
                    /\ loc' = [lid |-> loc.lid]
                    /\ UNCHANGED retryVars
               ELSE /\ loc' = [lid |-> loc.lid, sp |-> ProductOf(p)]
                    /\ trace' = <<Event("upload_products", "insert_record",
                                        [type |-> "Product"] @@ ProductOf(p))>>
                    /\ EnterInsertRecord
                    /\ pc' = "upload_products.saved"
    /\ UNCHANGED <<present, stage, nrec, idx, banners>>

\* Lines 211-213: the result of insert_record is kept in success and not read.
upload_products_saved ==
    /\ pc = "upload_products.saved"
    /\ rpc = "returned"
    /\ loc' = [lid |-> loc.lid, sp |-> loc.sp, success |-> ret,
               variants |-> SavedVariants(loc.sp, ret)]
    /\ IF HasVariants(cur)
       THEN /\ sub' = 1
            /\ pc' = "upload_products.variant"
            /\ idx' = idx
       ELSE /\ sub' = sub
            /\ pc' = "upload_products.for"
            /\ idx' = idx + 1
    /\ RetryIdle
    /\ UNCHANGED <<present, stage, nrec, cur, trace, banners>>

\* One pass of the loop of lines 214-226. The test of line 215 ends in pass,
\* so a variant without inventory_quantity goes on to line 226, where
\* v["inventory_quantity"] raises KeyError; a variant that is None or has no
\* inventory_item_id raises AttributeError at line 221.
upload_products_variant ==
    /\ pc = "upload_products.variant"
    /\ IF sub > Len(cur.variants)
       THEN /\ idx' = idx + 1
            /\ pc' = "upload_products.for"
            /\ UNCHANGED <<sub, trace>>
       ELSE LET v == cur.variants[sub]
                m == MatchVariant(loc.variants, v)
                info == Event("upload_products", "logger.info", [variant |-> m])
            IN  /\ idx' = idx
                /\ IF m = 0
                   THEN /\ pc' = "aborted"
                        /\ trace' = Append(trace, info)
                        /\ sub' = sub
                   ELSE IF "inventory_item_id" \notin DOMAIN loc.variants[m]
                   THEN /\ pc' = "aborted"
                        /\ trace' = Append(trace, info)
                        /\ sub' = sub
                   ELSE IF "inventory_quantity" \notin DOMAIN v
                   THEN /\ pc' = "aborted"
                        /\ trace' = Append(trace, info)
                        /\ sub' = sub
                   ELSE /\ pc' = pc
                        /\ trace' = trace \o
                              <<info,
                                Event("upload_products", "InventoryLevel.set",
                                      [location_id |-> loc.lid,
                                       inventory_item_id |-> loc.variants[m].inventory_item_id,
                                       available |-> v.inventory_quantity])>>
                        /\ sub' = sub + 1
    /\ UNCHANGED <<present, stage, nrec, cur, loc, banners>>
    /\ UNCHANGED retryVars

(***************************************************************************)
(* update_product                                                          *)
(***************************************************************************)
VariantUpdates ==
    {[id |-> 11, price |-> "9.99"],
     [id |-> 12, inventory_quantity |-> 4],
     [id |-> 11, title |-> "Large", inventory_quantity |-> 7]}

ProductUpdates ==
    LET Base == {[id |-> 1], [id |-> 2, title |-> "New"]}
    IN  Base
          \cup {b @@ [inventory_quantity |-> 5] : b \in Base}
          \cup {b @@ [variants |-> vs] :
                b \in Base, vs \in SeqsUpTo(VariantUpdates, MaxVariants)}

\* What shopify.Product.find(id) can answer: the product, or ResourceNotFound.
RemoteProduct(id) ==
    [id |-> id, title |-> "Old", vendor |-> "Acme", variants |-> <<[id |-> 10 + id]>>]

\* What shopify.Variant.find(id) can answer: the variant, or ResourceNotFound.
RemoteVariant(id) ==
    [id |-> id, title |-> "Old", price |-> "1.00", inventory_item_id |-> 9000 + id]

\* for k in d.keys(): if k in whitelist: setattr(obj, k, d[k])
SetAttrs(obj, d, whitelist) ==
    [k \in DOMAIN obj \cup (DOMAIN d \cap whitelist) |->
        IF k \in DOMAIN d \cap whitelist THEN d[k] ELSE obj[k]]

update_product_load(C) ==
    /\ Load("update_product", C)
    /\ \E id \in LocationIds : loc' = [location |-> [id |-> id]]
    /\ pc' = "update_product.for"

\* Mutant of ProductNotFound: the except branch leaves the loop.
ProductNotFound_break(product_id) ==
    /\ trace' = <<Event("update_product", "Product.find", [id |-> product_id, found |-> FALSE]),
                  Event("update_product", "logger.warning", [product |-> product_id])>>
    /\ pc' = "return"
    /\ idx' = idx
    /\ sub' = 0
    /\ loc' = [location |-> loc.location]

\* Lines 241-243: ResourceNotFound from Product.find is logged and the loop
\* goes on with the next record.
ProductNotFound(product_id) ==
    /\ trace' = <<Event("update_product", "Product.find", [id |-> product_id, found |-> FALSE]),
                  Event("update_product", "logger.warning", [product |-> product_id])>>
    /\ pc' = "update_product.for"
    /\ idx' = idx + 1
    /\ sub' = 0
    /\ loc' = [location |-> loc.location]

\* Lines 245-252 for a product that was found.
ProductFound(p, product_id) ==
    LET product == SetAttrs(RemoteProduct(product_id[1]), p,
                            {"title", "handle", "body_html", "vendor", "product_type"})
        find == Event("update_product", "Product.find", [id |-> product_id, found |-> TRUE])
    IN  /\ trace' = <<find>>
        /\ idx' = idx
        /\ IF HasVariants(p)
           THEN /\ loc' = [location |-> loc.location, product |-> product,
                           variants |-> p.variants]
                /\ sub' = 1
                /\ pc' = "update_product.variant"
           ELSE IF "inventory_quantity" \notin DOMAIN p
           THEN \* p["inventory_quantity"] raises KeyError
                /\ loc' = [location |-> loc.location, product |-> product]
                /\ sub' = 0
                /\ pc' = "aborted"
           ELSE /\ loc' = [location |-> loc.location, product |-> product,
                           variants |-> <<[id |-> product.variants[1].id,
                                           inventory_quantity |-> p.inventory_quantity]>>]
                /\ sub' = 1
                /\ pc' = "update_product.variant"

update_product_for(Records) ==
    /\ pc = "update_product.for"
    /\ IF idx > nrec
       THEN /\ pc' = "return"
            /\ UNCHANGED <<idx, cur, sub, loc, trace>>
       ELSE \E p \in Records : \E found \in BOOLEAN :
            /\ cur' = p
            /\ IF found
               THEN ProductFound(p, Get(p, "id"))
               ELSE ProductNotFound(Get(p, "id"))
    /\ UNCHANGED <<present, stage, nrec, banners>>
    /\ UNCHANGED retryVars

\* One pass of the loop of lines 253-268, or, past the last variant, line 270.
update_product_variant ==
    /\ pc = "update_product.variant"
    /\ IF sub > Len(loc.variants)
       THEN /\ trace' = Append(trace, Event("update_product", "insert_record",
                                            [type |-> "Product"] @@ loc.product))
            /\ EnterInsertRecord
            /\ pc' = "update_product.product_saved"
            /\ UNCHANGED <<sub, loc>>
       ELSE \E found \in BOOLEAN :
            LET v == loc.variants[sub]
                variant_id == Get(v, "id")
                variant == SetAttrs(RemoteVariant(variant_id[1]), v, {"price", "title"})
                find == Event("update_product", "Variant.find",
                              [id |-> variant_id, found |-> found])
                set == IF "inventory_quantity" \in DOMAIN v
                       THEN <<Event("update_product", "InventoryLevel.set",
                                    [location_id |-> loc.location.id,
                                     inventory_item_id |-> variant.inventory_item_id,
                                     available |-> v.inventory_quantity])>>
                       ELSE <<>>
            IN  IF ~found
                THEN /\ trace' = trace \o
                           <<find, Event("update_product", "logger.warning",
                                         [variant |-> variant_id])>>
                     /\ sub' = sub + 1
                     /\ UNCHANGED <<pc, loc>>
                     /\ UNCHANGED retryVars
                ELSE /\ trace' = trace \o <<find>> \o set \o
                           <<Event("update_product", "insert_record",
                                   [type |-> "Variant"] @@ variant)>>
                     /\ EnterInsertRecord
                     /\ pc' = "update_product.variant_saved"
                     /\ UNCHANGED <<sub, loc>>
    /\ UNCHANGED <<present, stage, nrec, idx, cur, banners>>

update_product_variant_saved ==
    /\ pc = "update_product.variant_saved"
    /\ rpc = "returned"
    /\ trace' = IF ~ret
                THEN Append(trace, Event("update_product", "logger.warning",
                                         [variant |-> Get(loc.variants[sub], "id")]))
                ELSE trace
    /\ sub' = sub + 1
    /\ pc' = "update_product.variant"
    /\ RetryIdle
    /\ UNCHANGED <<present, stage, nrec, idx, cur, loc, banners>>

update_product_product_saved ==
    /\ pc = "update_product.product_saved"
    /\ rpc = "returned"
    /\ trace' = IF ~ret
                THEN Append(trace, Event("update_product", "logger.warning",
                                         [product |-> <<loc.product.id>>]))
                ELSE trace
    /\ idx' = idx + 1
    /\ pc' = "update_product.for"
    /\ RetryIdle
    /\ UNCHANGED <<present, stage, nrec, cur, sub, loc, banners>>

(***************************************************************************)
(* update_inventory                                                        *)
(***************************************************************************)
InventoryUpdates ==
    LET Base == {[variant_id |-> 123, location_id |-> 99], [variant_id |-> 124]}
    IN  Base
          \cup {b @@ [inventory_quantity |-> q] : b \in Base, q \in {7, -2}}
          \cup {b @@ [price |-> "5.00", inventory_quantity |-> 7] : b \in Base}

update_inventory_load(C) ==
    /\ Load("update_inventory", C)
    /\ pc' = "update_inventory.for"
    /\ loc' = <<>>

\* Line 294.
AdjustCall(product, variant) ==
    Event("update_inventory", "InventoryLevel.adjust",
          [location_id |-> Get(product, "location_id"),
           inventory_item_id |-> variant.inventory_item_id,
           available_adjustment |-> product.inventory_quantity])

update_inventory_for(Records) ==
    /\ pc = "update_inventory.for"
    /\ IF idx > nrec
       THEN /\ pc' = "return"
            /\ UNCHANGED <<idx, cur, loc, trace>>
            /\ UNCHANGED retryVars
       ELSE \E product \in Records : \E found \in BOOLEAN :
            LET variant_id == Get(product, "variant_id")
                variant == SetAttrs(RemoteVariant(variant_id[1]), product, {"price", "title"})
                find == Event("update_inventory", "Variant.find",
                              [id |-> variant_id, found |-> found])
                adjust == IF "inventory_quantity" \in DOMAIN product
                          THEN <<AdjustCall(product, variant),
                                 Event("update_inventory", "logger.info",
                                       [variant |-> variant_id])>>
                          ELSE <<>>
            IN  /\ cur' = product
                /\ IF ~found
                   THEN /\ trace' = <<find, Event("update_inventory", "logger.warning",
                                                  [variant |-> variant_id])>>
                        /\ idx' = idx + 1
                        /\ UNCHANGED <<pc, loc>>
                        /\ UNCHANGED retryVars
                   ELSE /\ trace' = <<find>> \o adjust \o
                              <<Event("update_inventory", "insert_record",
                                      [type |-> "Variant"] @@ variant)>>
                        /\ loc' = [variant |-> variant]
                        /\ EnterInsertRecord
                        /\ pc' = "update_inventory.saved"
                        /\ idx' = idx
    /\ UNCHANGED <<present, stage, nrec, sub, banners>>

update_inventory_saved ==
    /\ pc = "update_inventory.saved"
    /\ rpc = "returned"
    /\ trace' = IF ~ret
                THEN Append(trace, Event("update_inventory", "logger.warning",
                                         [variant |-> Get(cur, "variant_id")]))
                ELSE trace
    /\ idx' = idx + 1
    /\ pc' = "update_inventory.for"
    /\ RetryIdle
    /\ UNCHANGED <<present, stage, nrec, cur, sub, loc, banners>>

(***************************************************************************)
(* upload_refunds                                                          *)
(***************************************************************************)
MaxTransactions == 2

Refunds ==
    LET Base == {[order_id |-> o] : o \in OrderIds}
    IN  Base
          \cup {b @@ [shipping |-> [full_refund |-> TRUE]] : b \in Base}
          \cup {b @@ [refund_line_items |-> <<[line_item_id |-> 1, quantity |-> 1]>>] :
                b \in Base}
          \cup {[note |-> "no order"]}

\* Amounts are in cents.
CalculatedTransactions ==
    {[parent_id |-> 1, kind |-> "suggested_refund", amount |-> 4000,
      maximum_refundable |-> 5000],
     [parent_id |-> 2, kind |-> "suggested_refund", amount |-> 1000,
      maximum_refundable |-> 1000]}

\* What shopify.Refund.calculate can answer.
Calculations ==
    {[shipping |-> [amount |-> a, maximum_refundable |-> 300], currency |-> c,
      transactions |-> t] :
        a \in {0, 300}, c \in {"USD", "EUR"},
        t \in SeqsUpTo(CalculatedTransactions, MaxTransactions)}

\* Lines 336-339: the defaults of the request.
WithDefaults(refund) ==
    refund @@ [refund_line_items |-> <<>>, shipping |-> <<>>]

\* Mutant of RefundPayload: the calculated amounts are sent back unchanged.
RefundPayload_suggested(refund, calc) ==
    [order_id |-> refund.order_id,
     currency |-> calc.currency,
     shipping |-> calc.shipping,
     transactions |-> [i \in 1..Len(calc.transactions) |->
                          [calc.transactions[i] EXCEPT !.kind = "refund"]]]

\* Lines 343-353: the payload built from the calculation.
RefundPayload(refund, calc) ==
    [order_id |-> refund.order_id,
     currency |-> calc.currency,
     shipping |-> [calc.shipping EXCEPT !.amount = calc.shipping.maximum_refundable],
     transactions |-> [i \in 1..Len(calc.transactions) |->
                          [calc.transactions[i] EXCEPT
                              !.amount = calc.transactions[i].maximum_refundable,
                              !.kind = "refund"]]]

upload_refunds_load(C) ==
    /\ Load("upload_refunds", C)
    /\ pc' = "upload_refunds.for"
    /\ loc' = <<>>

upload_refunds_for(Records) ==
    /\ pc = "upload_refunds.for"
    /\ IF idx > nrec
       THEN /\ pc' = "return"
            /\ UNCHANGED <<cur, loc, trace>>
            /\ UNCHANGED retryVars
       ELSE \E refund \in Records : \E calc \in Calculations :
            /\ cur' = refund
            /\ IF "order_id" \notin DOMAIN refund
               THEN \* refund["order_id"] raises KeyError
                    /\ pc' = "aborted"
                    /\ trace' = <<>>
                    /\ loc' = <<>>
                    /\ UNCHANGED retryVars
               ELSE /\ trace' =
                          <<Event("upload_refunds", "Refund.calculate",
                                  [order_id |-> refund.order_id,
                                   refund_line_items |-> WithDefaults(refund).refund_line_items,
                                   shipping |-> WithDefaults(refund).shipping,
                                   result |-> calc]),
                            Event("upload_refunds", "insert_record",
                                  [type |-> "Refund"] @@ RefundPayload(refund, calc))>>
                    /\ loc' = [refund_calculations |-> calc]
                    /\ EnterInsertRecord
                    /\ pc' = "upload_refunds.saved"
    /\ UNCHANGED <<present, stage, nrec, idx, sub, banners>>

upload_refunds_saved ==
    /\ pc = "upload_refunds.saved"
    /\ rpc = "returned"
    /\ trace' = IF ~ret
                THEN Append(trace, Event("upload_refunds", "logger.warning",
                                         [order |-> cur.order_id]))
                ELSE trace
    /\ idx' = idx + 1
    /\ pc' = "upload_refunds.for"
    /\ RetryIdle
    /\ UNCHANGED <<present, stage, nrec, cur, sub, loc, banners>>

(***************************************************************************)
(* Specifications                                                          *)
(***************************************************************************)
InitWrapper ==
    /\ rpc = "idle"
    /\ tries = 0
    /\ yielded = 0
    /\ saveCalls = 0
    /\ sleeps = <<>>
    /\ retryLogs = <<>>
    /\ seen = {}
    /\ last = Returns(FALSE)
    /\ ret = FALSE
    /\ exc = [e |-> ServerError, at |-> 0]

\* main has called upload(client, config); the files in P exist.
InitUpload(P) ==
    /\ present = P
    /\ stage = 1
    /\ pc = "check"
    /\ nrec = 0
    /\ idx = 1
    /\ cur = <<>>
    /\ sub = 0
    /\ loc = <<>>
    /\ trace = <<>>
    /\ banners = <<>>
    /\ InitWrapper

\* insert_record(obj) called on its own.
InitRetry ==
    /\ present = {}
    /\ stage = 1
    /\ pc = "insert_record"
    /\ nrec = 0
    /\ idx = 1
    /\ cur = <<>>
    /\ sub = 0
    /\ loc = <<>>
    /\ trace = <<>>
    /\ banners = <<>>
    /\ rpc = "call"
    /\ tries = 1
    /\ yielded = 0
    /\ saveCalls = 0
    /\ sleeps = <<>>
    /\ retryLogs = <<>>
    /\ seen = {}
    /\ last = Returns(FALSE)
    /\ ret = FALSE
    /\ exc = [e |-> ServerError, at |-> 0]

NextRetry == insert_record(SaveOutcomes)

SpecRetry == InitRetry /\ [][NextRetry]_vars

NextUpload == UploadCheck \/ UploadReturn \/ UploadDone \/ Propagate

InitFulfill == InitUpload({"fulfill_order.json"})

NextFulfill ==
    \/ NextUpload
    \/ insert_record(RemoteOutcomes)
    \/ fulfill_order_load(Counts)
    \/ fulfill_order_for(Fulfillments)
    \/ fulfill_order_saved

SpecFulfill == InitFulfill /\ [][NextFulfill]_vars

InitOrders == InitUpload({"orders.json"})

NextOrders ==
    \/ NextUpload
    \/ insert_record(RemoteOutcomes)
    \/ upload_orders_load(Counts)
    \/ upload_orders_for(Orders)
    \/ upload_orders_line
    \/ upload_orders_saved

SpecOrders == InitOrders /\ [][NextOrders]_vars

InitProducts == InitUpload({"products.json"})

NextProducts ==
    \/ NextUpload
    \/ insert_record(RemoteOutcomes)
    \/ upload_products_load(Counts)
    \/ upload_products_for(Products)
    \/ upload_products_saved
    \/ upload_products_variant

SpecProducts == InitProducts /\ [][NextProducts]_vars

InitUpdateProduct == InitUpload({"update_product.json"})

NextUpdateProduct ==
    \/ NextUpload
    \/ insert_record(RemoteOutcomes)
    \/ update_product_load(Counts)
    \/ update_product_for(ProductUpdates)
    \/ update_product_variant
    \/ update_product_variant_saved
    \/ update_product_product_saved

SpecUpdateProduct == InitUpdateProduct /\ [][NextUpdateProduct]_vars

InitRefunds == InitUpload({"refunds.json"})

NextRefunds ==
    \/ NextUpload
    \/ insert_record(RemoteOutcomes)
    \/ upload_refunds_load(Counts)
    \/ upload_refunds_for(Refunds)
    \/ upload_refunds_saved

SpecRefunds == InitRefunds /\ [][NextRefunds]_vars

\* upload with any set of input files present; each file holds records of one
\* shape (update_inventory.json the record of the end-to-end scenario).
SampleFulfillments == {[order_id |-> 1001]}
SampleUpdateFulfillments == {[order_id |-> 1001, shipment_status |-> "delivered"]}
SampleProducts == {[title |-> "Shirt", variants |-> <<[title |-> "S", inventory_quantity |-> 3]>>]}
SampleOrders == {[line_items |-> <<[sku |-> "A", quantity |-> 2]>>]}
SampleProductUpdates == {[id |-> 1, inventory_quantity |-> 5]}
SampleInventoryUpdates == {[variant_id |-> 123, location_id |-> 99, inventory_quantity |-> 7]}
SampleRefunds == {[order_id |-> 1001]}

Init == \E P \in SUBSET Files : InitUpload(P)

Next ==
    \/ NextUpload
    \/ insert_record(RemoteOutcomes)
    \/ fulfill_order_load(Counts)
    \/ fulfill_order_for(SampleFulfillments)
    \/ fulfill_order_saved
    \/ update_fulfillments_load(Counts)
    \/ update_fulfillments_for(SampleUpdateFulfillments)
    \/ update_fulfillments_item
    \/ update_fulfillments_saved
    \/ upload_products_load(Counts)
    \/ upload_products_for(SampleProducts)
    \/ upload_products_saved
    \/ upload_products_variant
    \/ upload_orders_load(Counts)
    \/ upload_orders_for(SampleOrders)
    \/ upload_orders_line
    \/ upload_orders_saved
    \/ update_product_load(Counts)
    \/ update_product_for(SampleProductUpdates)
    \/ update_product_variant
    \/ update_product_variant_saved
    \/ update_product_product_saved
    \/ update_inventory_load(Counts)
    \/ update_inventory_for(SampleInventoryUpdates)
    \/ update_inventory_saved
    \/ upload_refunds_load(Counts)
    \/ upload_refunds_for(SampleRefunds)
    \/ upload_refunds_saved

Spec == Init /\ [][Next]_vars

(***************************************************************************)
(* Properties of the retry wrapper (checked under SpecRetry)               *)
(***************************************************************************)
Ended == rpc \in {"returned", "raised"}

\* C1: a ClientError whose status is not 429 is not retried: as soon as
\* obj.save raises one, insert_record propagates that very error; when it is
\* the first outcome, obj.save was invoked exactly once, and nothing slept or
\* backed off.
C1_ClientErrorNotRetried ==
    (last.kind = "raise" /\ ErrClass(last.err) = "client") =>
        /\ rpc = "raised"
        /\ exc = [e |-> last.err, at |-> saveCalls]
        /\ (seen = {"client"} => saveCalls = 1 /\ sleeps = <<>> /\ retryLogs = <<>>)

\* C2: 429 responses never use the bounded budget and are retried without
\* limit: while every error so far is a 429 carrying Retry-After,
\* insert_record has not raised, no outer retry was counted, each 429 was
\* followed by one sleep of the duration its header names, and a value that
\* obj.save returns is returned.
C2_RateLimitUnbounded ==
    (seen \subseteq {"rate"}) =>
        /\ rpc # "raised"
        /\ tries = 1 /\ retryLogs = <<>>
        /\ Len(sleeps) = (IF rpc = "returned" THEN saveCalls - 1 ELSE saveCalls)
        /\ (last.kind = "raise" =>
               sleeps[Len(sleeps)] = retry_after_wait_gen(last.err)[1].value)
        /\ (rpc = "returned" => ret = last.val)

\* C3: the bounded budget is exactly 5 attempts: while obj.save raises only
\* server errors or other non-client errors, each failure before the 5th is
\* followed by a retry log and another call; the 5th failure ends
\* insert_record with the error of the 5th call, after retry logs 1..4; a
\* call that succeeds ends it with that call's value; and nothing is called
\* after insert_record ended.
C3_BudgetIsMaxRetries ==
    (seen \subseteq {"server", "other"}) =>
        /\ (rpc = "call" => saveCalls < 5 /\ Len(retryLogs) = saveCalls)
        /\ (rpc = "raised" =>
               /\ saveCalls = 5
               /\ retryLogs = <<1, 2, 3, 4>>
               /\ last.kind = "raise"
               /\ exc = [e |-> last.err, at |-> 5])
        /\ (rpc = "returned" =>
               /\ saveCalls <= 5
               /\ last.kind = "return" /\ ret = last.val
               /\ Len(retryLogs) = saveCalls - 1)
        /\ (Ended => ~ENABLED NextRetry)

C3_Witness ==
    rpc = "raised" /\ seen = {"server"} /\ saveCalls = 5 /\ exc.at = 5

\* C10: whatever obj.save does, it is invoked at most 2 * MAX_RETRIES = 10
\* times: every state that still calls has made fewer than 10 calls, an
\* ended call of insert_record calls no more, at most one Retry-After wait
\* happens per outer try, and the outer layer counts at most 5 tries.
C10_AtMostTenSaveCalls ==
    /\ saveCalls <= 10
    /\ (rpc = "call" => saveCalls < 10)
    /\ (Ended => ~ENABLED NextRetry)
    /\ tries <= 5
    /\ Len(sleeps) <= tries
    /\ saveCalls <= tries + Len(sleeps)

C10_Witness ==
    rpc = "raised" /\ saveCalls = 10 /\ seen = {"rate"}

(***************************************************************************)
(* Properties of the file handlers                                         *)
(***************************************************************************)
\* The handler h is running, or has just ended the run.
Running(h) ==
    /\ stage <= Len(Handlers)
    /\ Handlers[stage] = h
    /\ pc \notin {"check", h}

IsInsert(e) == e.op = "insert_record"
IsSet(e) == e.op = "InventoryLevel.set"
IsAdjust(e) == e.op = "InventoryLevel.adjust"
IsQuery(e) == e.op = "GraphQL.execute"
IsCalculate(e) == e.op = "Refund.calculate"
IsLog(e) == e.op \in {"logger.info", "logger.warning"}
IsCall(e) == ~IsLog(e)

\* A failure of the kinds C4 lists ended the run: insert_record raised, a save
\* returned a falsy result, or a lookup reported not-found.
ListedFailure ==
    \/ rpc = "raised"
    \/ Running("fulfill_order") /\ rpc = "idle"
    \/ Running("upload_products") /\ "success" \in DOMAIN loc /\ ~loc.success
    \/ Running("update_fulfillments") /\ rpc = "idle" /\ ~trace[1].arg.found

\* C4: per-record failure isolation: no failure while processing record i (a
\* lookup reporting not-found, a save returning a falsy result, a save
\* raising after its retries) ends the run while later records of the file
\* are still unprocessed.
C4_RecordFailuresAreIsolated ==
    ~(pc = "aborted" /\ ListedFailure /\ idx < nrec)

\* The inventory-set calls C5 expects for the first k variants of product p.
ExpectedSetCalls(p, k) ==
    LET vs == p.variants
        stocked == SelectSeq([i \in 1..k |-> i],
                             LAMBDA i : "inventory_quantity" \in DOMAIN vs[i])
        first(i) == CHOOSE j \in 1..Len(vs) :
                        /\ vs[j].title = vs[i].title
                        /\ \A h \in 1..Len(vs) : vs[h].title = vs[i].title => j <= h
    IN  [s \in 1..Len(stocked) |->
            [location_id |-> loc.lid,
             inventory_item_id |-> 9000 + first(stocked[s]),
             available |-> vs[stocked[s]].inventory_quantity]]

\* The variants of the current product that the loop of lines 214-226 is past.
VariantsDone ==
    IF ~HasVariants(cur) THEN 0
    ELSE IF pc = "upload_products.variant" THEN sub - 1
    ELSE Len(cur.variants)

\* C5: for a product with a title whose save succeeded, upload_products
\* issues exactly one product save, and for the variants it is past exactly
\* one inventory-set call per variant carrying inventory_quantity and none
\* for the others, each with the location resolved at the start, the
\* inventory item of the saved variant of the same title and the variant's
\* quantity; it gets past every variant.
C5_OneSetCallPerStockedVariant ==
    (Running("upload_products") /\ "success" \in DOMAIN loc /\ loc.success) =>
        /\ pc # "aborted"
        /\ Len(SelectSeq(trace, IsInsert)) = 1
        /\ LET sets == SelectSeq(trace, IsSet)
               want == IF HasVariants(cur) THEN ExpectedSetCalls(cur, VariantsDone)
                       ELSE <<>>
           IN  /\ Len(sets) = Len(want)
               /\ \A i \in 1..Len(sets) : sets[i].arg = want[i]

LacksVariantId(li) == ~Truthy(li, "variant_id")

Resolved(response) == response.ok /\ Len(response.edges) > 0

\* The SKUs C6 expects to be looked up for the line items lis, in order.
RECURSIVE ExpectedQueries(_)
ExpectedQueries(lis) ==
    IF lis = <<>> THEN <<>>
    ELSE (IF LacksVariantId(Head(lis)) THEN <<Head(lis).sku>> ELSE <<>>)
            \o ExpectedQueries(Tail(lis))

\* The order lines C6 expects for the line items lis, given the answers to
\* the look-ups in order.
RECURSIVE ExpectedLines(_, _)
ExpectedLines(lis, answers) ==
    IF lis = <<>> THEN <<>>
    ELSE LET li == Head(lis) IN
         IF ~LacksVariantId(li)
         THEN <<[variant_id |-> li.variant_id, quantity |-> li.quantity]>>
                 \o ExpectedLines(Tail(lis), answers)
         ELSE (IF Resolved(Head(answers))
               THEN <<[variant_id |-> CatalogId(li.sku), quantity |-> li.quantity]>>
               ELSE <<>>)
                 \o ExpectedLines(Tail(lis), Tail(answers))

\* C6: for the order upload_orders is at, and the line items it is past: one
\* SKU look-up was made per line item lacking a variant id, in order; the
\* order's lines are exactly the line items that had a variant id or whose
\* look-up resolved, in input order, each with its variant id and quantity; a
\* failed look-up did not stop the later line items; and once every line item
\* is passed exactly one order save is issued, carrying those lines.
C6_OrderHoldsResolvedLines ==
    (Running("upload_orders") /\ "lines" \in DOMAIN loc) =>
        LET done == SubSeq(cur.line_items, 1, sub - 1)
            queries == SelectSeq(trace, IsQuery)
            inserts == SelectSeq(trace, IsInsert)
            answers == [i \in 1..Len(queries) |-> queries[i].arg.response]
        IN  /\ [i \in 1..Len(queries) |-> queries[i].arg.sku] = ExpectedQueries(done)
            /\ loc.lines = ExpectedLines(done, answers)
            /\ IF pc = "upload_orders.line"
               THEN inserts = <<>>
               ELSE \/ pc = "aborted" /\ rpc # "raised" /\ inserts = <<>>
                    \/ /\ sub = Len(cur.line_items) + 1
                       /\ Len(inserts) = 1
                       /\ inserts[1].arg = [type |-> "Order", line_items |-> loc.lines]

C6_Witness ==
    /\ pc = "upload_orders.saved"
    /\ rpc = "returned"
    /\ Len(cur.line_items) = 2
    /\ Len(SelectSeq(trace, IsQuery)) = 2
    /\ Len(loc.lines) = 1
    /\ loc.lines[1].variant_id = "502"

\* C7: for the refund record upload_refunds is at: exactly one calculate call
\* was made, for the record's order, before the single save; the saved
\* payload has the record's order id and the calculated currency, its
\* shipping amount is the calculated shipping maximum_refundable, and its
\* transactions are the calculated ones in order, each with amount set to
\* its maximum_refundable and kind "refund".
C7_RefundPayloadFromCalculation ==
    (Running("upload_refunds") /\ "refund_calculations" \in DOMAIN loc) =>
        /\ Len(SelectSeq(trace, IsCalculate)) = 1
        /\ Len(SelectSeq(trace, IsInsert)) = 1
        /\ IsCalculate(trace[1]) /\ IsInsert(trace[2])
        /\ trace[1].arg.order_id = cur.order_id
        /\ LET result == trace[1].arg.result
               payload == trace[2].arg
           IN  /\ payload.order_id = cur.order_id
               /\ payload.currency = result.currency
               /\ payload.shipping.amount = result.shipping.maximum_refundable
               /\ Len(payload.transactions) = Len(result.transactions)
               /\ \A i \in 1..Len(result.transactions) :
                     /\ payload.transactions[i].amount =
                            result.transactions[i].maximum_refundable
                     /\ payload.transactions[i].kind = "refund"
                     /\ payload.transactions[i].parent_id =
                            result.transactions[i].parent_id

C7_Witness ==
    /\ pc = "upload_refunds.saved"
    /\ rpc = "returned"
    /\ trace[1].arg.result.shipping.amount = 0
    /\ trace[2].arg.shipping.amount = 300
    /\ Len(trace[2].arg.transactions) = 2
    /\ trace[1].arg.result.transactions[1].amount = 4000
    /\ trace[2].arg.transactions[1].amount = 5000

\* The banners of a run of upload that gets through its first k checks.
RECURSIVE ExpectedBanners(_)
ExpectedBanners(k) ==
    IF k = 0 THEN <<>>
    ELSE ExpectedBanners(k - 1) \o
            (IF FileOf(Handlers[k]) \in present
             THEN <<<<"Found", FileOf(Handlers[k])>>, <<"uploaded", FileOf(Handlers[k])>>>>
             ELSE <<>>)

\* C8: upload runs the handlers of exactly the files that exist, each once,
\* in the fixed order, one after the other: past its first k checks it has
\* started and finished exactly the present files among the first k handlers,
\* in order; a running handler's file exists; every call and log line of the
\* current record is the running handler's; and with only
\* update_inventory.json present, holding one record whose variant exists, a
\* finished run has issued, after the variant look-up, exactly one adjust call
\* (the record's location_id, the variant's inventory item, the quantity)
\* and one variant save, and no other call.
C8_HandlersOfPresentFilesInOrder ==
    /\ IF pc = "check" \/ pc = "done"
       THEN banners = ExpectedBanners(stage - 1)
                \o (IF pc = "done" THEN <<<<"Posting process has completed!", "">>>> ELSE <<>>)
       ELSE /\ FileOf(Handlers[stage]) \in present
            /\ banners = ExpectedBanners(stage - 1)
                \o <<<<"Found", FileOf(Handlers[stage])>>>>
            /\ (pc # Handlers[stage] =>
                   \A i \in 1..Len(trace) : trace[i].by = Handlers[stage])
    /\ (pc = "done" => stage = Len(Handlers) + 1)
    /\ \A i \in 1..Len(trace) : FileOf(trace[i].by) \in present
    /\ (/\ pc = "done"
        /\ present = {"update_inventory.json"}
        /\ nrec = 1
        /\ trace[1].arg.found)
       => LET calls == SelectSeq(trace, IsCall) IN
          /\ Len(calls) = 3
          /\ calls[1].op = "Variant.find"
          /\ calls[2] = Event("update_inventory", "InventoryLevel.adjust",
                              [location_id |-> <<99>>, inventory_item_id |-> 9123,
                               available_adjustment |-> 7])
          /\ IsInsert(calls[3]) /\ calls[3].arg.type = "Variant" /\ calls[3].arg.id = 123

C8_Witness ==
    /\ pc = "done"
    /\ present = {"update_inventory.json"}
    /\ nrec = 1
    /\ Len(SelectSeq(trace, IsAdjust)) = 1
    /\ Len(SelectSeq(trace, IsInsert)) = 1
    /\ banners = <<<<"Found", "update_inventory.json">>, <<"uploaded", "update_inventory.json">>,
                   <<"Posting process has completed!", "">>>>

\* C9: when the product look-up of an update record reports not-found,
\* update_product does nothing for the record but log a warning (no variant
\* look-up, no inventory call, no save) and goes on to the next record.
C9_MissingProductIsSkipped ==
    [][(/\ pc = "update_product.for"
        /\ idx <= nrec
        /\ ~trace'[1].arg.found)
       => /\ Len(trace') = 2
          /\ trace'[1] = Event("update_product", "Product.find",
                               [id |-> Get(cur', "id"), found |-> FALSE])
          /\ trace'[2] = Event("update_product", "logger.warning",
                               [product |-> Get(cur', "id")])
          /\ pc' = "update_product.for"
          /\ idx' = idx + 1
          /\ rpc' = "idle"]_vars

C9_Witness ==
    /\ pc = "update_product.for"
    /\ nrec = 2
    /\ idx = 2
    /\ Len(trace) = 2
    /\ ~trace[1].arg.found
    /\ trace[2].op = "logger.warning"

====
